---- MODULE Spec2Model ----
(***************************************************************************)
(* Traversal-order planner of RedisGraph                                   *)
(* (src/execution_plan/optimizations/traverse_order.c).                    *)
(*                                                                         *)
(* orderExpressions receives an array of pointers to algebraic             *)
(* expressions, enumerates its permutations, drops the invalid ones,       *)
(* scores the rest, writes the winner back to the caller's array, then     *)
(* transposes expressions so that every source is resolved and picks the   *)
(* entry point of the opener.                                              *)
(*                                                                         *)
(* C arrays are 0-based, sequences here are 1-based: position i of the C   *)
(* code is index i + 1 below.  Aliases are strings in C and are compared   *)
(* for equality only; they are small integers here.  Expression pointers   *)
(* are the keys of the function objs (the heap of expression objects).     *)
(***************************************************************************)
EXTENDS Integers, Sequences, FiniteSets

\* ------------------------------------------------------------------ bounds
MaxExps     == 3   \* longest input array
NumAliases  == 3   \* distinct node aliases of the query graph
MaxOperands == 2   \* most operands in one expression
MaxSize     == 5   \* largest input: expressions + operands beyond the first
                   \* + transposes + marks (labels, filters, bound variables)

\* --------------------------------------------------------- program constants
T == 1           \* transpose penalty
L == 2 * T       \* label score
F == 4 * T       \* filter score
B == 8 * F       \* bound variable bonus
INT_MIN == -2147483647 - 1

VARIABLES
    pc,                   \* position inside orderExpressions
    objs,                 \* heap: expression pointer -> expression object
    exps,                 \* the caller's array of expression pointers
    exp_count,            \* its length (cnt in the operators below)
    labeled,              \* query graph: aliases whose node has a label
    filtered_entities,    \* aliases collected from the filter tree
    bound_vars,           \* [present |-> is the rax non-NULL, vars |-> its keys]
    maintain_transpose,   \* Config_MAINTAIN_TRANSPOSE
    arrangements,         \* all permutations of exps
    valid_arrangements,   \* those that passed _valid_arrangement
    top_arrangement,      \* winner of the scoring loop
    max_score,            \* its score
    call                  \* the caller's record of this call: which run it is
                          \* and the array and objects it passed in

vars == << pc, objs, exps, exp_count, labeled, filtered_entities, bound_vars,
           maintain_transpose, arrangements, valid_arrangements,
           top_arrangement, max_score, call >>

env == << labeled, filtered_entities, bound_vars, maintain_transpose >>

Aliases == 1 .. NumAliases

\* ------------------------------------------- the algebraic expression module
\* An expression object.  edge: does it carry an edge alias; operands: operand
\* count; transposes: number of transpose operations in its tree; transposed:
\* is the expression currently in transposed form.
Expression ==
    [ src : Aliases, dest : Aliases, edge : BOOLEAN,
      operands : 1 .. MaxOperands, transposes : 0 .. MaxOperands,
      transposed : BOOLEAN ]

AlgebraicExpression_Source(e)       == e.src
AlgebraicExpression_Destination(e)  == e.dest
AlgebraicExpression_Edge(e)         == e.edge
AlgebraicExpression_OperandCount(e) == e.operands
AlgebraicExpression_OperationCount(e) == e.transposes

\* Transposing swaps source and destination and flips every operand: the
\* operands that carried a transpose lose it, the others gain one.
AlgebraicExpression_Transpose(e) ==
    [ e EXCEPT !.src = e.dest, !.dest = e.src,
               !.transposes = e.operands - e.transposes,
               !.transposed = ~ e.transposed ]

\* QueryGraph_GetNodeByAlias(qg, alias)->label != NULL
NodeLabeled(qg, alias) == alias \in qg

\* raxFind(set, alias) != raxNotFound
raxFind(set, alias) == alias \in set

\* ----------------------------------------------------------- permutations
_factorial(x) ==
    LET f[i \in 0 .. x] == IF i < 2 THEN 1 ELSE i * f[i - 1] IN f[x]

\* the slip of a swap that forgets the temporary
_swap_no_temp(a, i, j) == [ a EXCEPT ![i] = a[j] ]

_swap(a, i, j) == [ a EXCEPT ![i] = a[j], ![j] = a[i] ]

\* _permute(set, l, r, &permutations): st is << set, permutations >>, the two
\* arrays the recursion mutates; the loop over i is the inner recursion.
RECURSIVE _permute(_, _, _)
RECURSIVE _permute_loop(_, _, _, _)
_permute(st, l, r) ==
    IF l = r
    THEN << st[1], Append(st[2], st[1]) >>
    ELSE _permute_loop(st, l, r, l)

\* the slip of a loop that does not backtrack
_permute_loop_no_backtrack(st, l, r, i) ==
    IF i > r THEN st
    ELSE LET swapped == << _swap(st[1], l, i), st[2] >>
             inner   == _permute(swapped, l + 1, r)
         IN  _permute_loop(inner, l, r, i + 1)

_permute_loop(st, l, r, i) ==
    IF i > r THEN st
    ELSE LET swapped == << _swap(st[1], l, i), st[2] >>
             inner   == _permute(swapped, l + 1, r)
             back    == << _swap(inner[1], l, i), inner[2] >>
         IN  _permute_loop(back, l, r, i + 1)

_permutations(es, n) == _permute(<< es, << >> >>, 1, n)[2]

\* ------------------------------------------------------------ validity filter
\* the slip of leaving out the operand count
OpenerRejected_any_operands(e, qg) ==
    /\ NodeLabeled(qg, AlgebraicExpression_Source(e))
         \/ NodeLabeled(qg, AlgebraicExpression_Destination(e))
    /\ AlgebraicExpression_Edge(e)

\* The opener test of _valid_arrangement: a one-operand traversal with a
\* labeled endpoint cannot open an arrangement.
OpenerRejected(e, qg) ==
    /\ NodeLabeled(qg, AlgebraicExpression_Source(e))
         \/ NodeLabeled(qg, AlgebraicExpression_Destination(e))
    /\ AlgebraicExpression_Edge(e)
    /\ AlgebraicExpression_OperandCount(e) = 1

\* The break condition of the scan over previous expressions.
SharesEndpoint(prev, e) ==
    \/ prev.src  = e.src
    \/ prev.dest = e.src
    \/ prev.src  = e.dest
    \/ prev.dest = e.dest

\* the filter without its opener test
_valid_arrangement_no_opener(o, arrangement, cnt, qg) ==
    \A i \in 2 .. cnt :
        \E j \in 1 .. i - 1 : SharesEndpoint(o[arrangement[j]], o[arrangement[i]])

_valid_arrangement(o, arrangement, cnt, qg) ==
    /\ ~ OpenerRejected(o[arrangement[1]], qg)
    /\ \A i \in 2 .. cnt :
           \E j \in 1 .. i - 1 : SharesEndpoint(o[arrangement[j]], o[arrangement[i]])

\* -------------------------------------------------------------------- scoring
\* "see if source is already resolved": some expression before position i has
\* the source of the expression at i as its source or destination.
SrcResolved(o, arrangement, i) ==
    \E j \in 1 .. i - 1 :
        \/ o[arrangement[j]].src  = o[arrangement[i]].src
        \/ o[arrangement[j]].dest = o[arrangement[i]].src

RECURSIVE SumOver(_, _, _)
SumOver(f, lo, hi) == IF lo > hi THEN 0 ELSE f[lo] + SumOver(f, lo + 1, hi)

\* the slip of charging an unresolved expression as a resolved one
PenaltyAt_as_resolved(o, arrangement, i) ==
    AlgebraicExpression_OperationCount(o[arrangement[i]]) * T

\* the slip of a loop that leaves out the first expression
PenaltyAt_first_free(o, arrangement, i) ==
    LET e == o[arrangement[i]] IN
    IF i = 1 THEN 0
    ELSE IF SrcResolved(o, arrangement, i)
    THEN AlgebraicExpression_OperationCount(e) * T
    ELSE (AlgebraicExpression_OperandCount(e)
            - AlgebraicExpression_OperationCount(e)) * T

\* the penalty of one position of an arrangement
PenaltyAt(o, arrangement, i) ==
    LET e == o[arrangement[i]] IN
    IF i = 1 \/ SrcResolved(o, arrangement, i)
    THEN AlgebraicExpression_OperationCount(e) * T
    ELSE (AlgebraicExpression_OperandCount(e)
            - AlgebraicExpression_OperationCount(e)) * T

\* the slip of not reading the configuration
_penalty_arrangement_always(o, arrangement, cnt, mt) ==
    SumOver([ i \in 1 .. cnt |-> PenaltyAt(o, arrangement, i) ], 1, cnt)

_penalty_arrangement(o, arrangement, cnt, mt) ==
    IF mt THEN 0
    ELSE SumOver([ i \in 1 .. cnt |-> PenaltyAt(o, arrangement, i) ],
                 1, cnt)

_reward_expression(e, qg, filtered, bound, reward_factor) ==
      (IF bound.present /\ raxFind(bound.vars, e.src)  THEN B * reward_factor ELSE 0)
    + (IF bound.present /\ raxFind(bound.vars, e.dest) THEN B * reward_factor ELSE 0)
    + (IF raxFind(filtered, e.src)  THEN F * reward_factor ELSE 0)
    + (IF raxFind(filtered, e.dest) THEN F * reward_factor ELSE 0)
    + (IF NodeLabeled(qg, e.src)    THEN L * reward_factor ELSE 0)

\* the slip of one reward factor for every position
_reward_arrangement_flat(o, arrangement, cnt, qg, filtered, bound) ==
    SumOver([ i \in 1 .. cnt |->
                _reward_expression(o[arrangement[i]], qg, filtered, bound, 1) ],
            1, cnt)

\* position i (1-based) has reward_factor cnt - (i - 1)
_reward_arrangement(o, arrangement, cnt, qg, filtered, bound) ==
    SumOver([ i \in 1 .. cnt |->
                _reward_expression(o[arrangement[i]], qg, filtered, bound,
                                   cnt - (i - 1)) ],
            1, cnt)

_score_arrangement(o, arrangement, cnt, qg, filtered, bound, mt) ==
    _reward_arrangement(o, arrangement, cnt, qg, filtered, bound)
      - _penalty_arrangement(o, arrangement, cnt, mt)

\* the comparison of the scoring loop, and its slip that lets a later tie win
NewBestOrEqual(best, score) == best <= score

NewBest(best, score) == best < score

\* The scoring loop of orderExpressions from index i on: st is
\* [max_score, top_arrangement].
RECURSIVE ScoreLoop(_, _, _, _, _, _, _, _, _)
ScoreLoop(st, valid, i, o, cnt, qg, filtered, bound, mt) ==
    IF i > Len(valid) THEN st
    ELSE LET score == _score_arrangement(o, valid[i], cnt, qg,
                                         filtered, bound, mt)
             next  == IF NewBest(st.max_score, score)
                      THEN [ max_score |-> score, top_arrangement |-> valid[i] ]
                      ELSE st
         IN  ScoreLoop(next, valid, i + 1, o, cnt, qg, filtered, bound, mt)

\* --------------------------------------- sequence resolver and entry point
\* _resolve_winning_sequence from position i on; positions before i have
\* already been transposed where needed.
RECURSIVE ResolveFrom(_, _, _, _)
ResolveFrom(o, es, cnt, i) ==
    IF i > cnt THEN o
    ELSE ResolveFrom(
             IF SrcResolved(o, es, i) THEN o
             ELSE [ o EXCEPT ![es[i]] = AlgebraicExpression_Transpose(o[es[i]]) ],
             es, cnt, i + 1)

\* the slip of a loop that starts one position too late
_resolve_from_second(o, es, cnt) == ResolveFrom(o, es, cnt, 3)

_resolve_winning_sequence(o, es, cnt) == ResolveFrom(o, es, cnt, 2)

\* the two scores of the label and filter heuristic
EntryScore(alias, qg, filtered) ==
    (IF raxFind(filtered, alias) THEN F ELSE 0)
      + (IF NodeLabeled(qg, alias) THEN L ELSE 0)

\* the slip of returning on a bound destination without transposing
SelectTransposes_bound_dest_kept(e, qg, filtered, bound) ==
    IF AlgebraicExpression_OperandCount(e) = 1 /\ e.src = e.dest THEN FALSE
    ELSE IF bound.present /\ raxFind(bound.vars, e.src) THEN FALSE
    ELSE IF bound.present /\ raxFind(bound.vars, e.dest) THEN FALSE
    ELSE EntryScore(e.dest, qg, filtered) > EntryScore(e.src, qg, filtered)

\* the slip of transposing on a tie
SelectTransposes_on_tie(e, qg, filtered, bound) ==
    IF AlgebraicExpression_OperandCount(e) = 1 /\ e.src = e.dest THEN FALSE
    ELSE IF bound.present /\ raxFind(bound.vars, e.src) THEN FALSE
    ELSE IF bound.present /\ raxFind(bound.vars, e.dest) THEN TRUE
    ELSE EntryScore(e.dest, qg, filtered) >= EntryScore(e.src, qg, filtered)

\* the slip of an inverted self-loop test
SelectTransposes_self_loop(e, qg, filtered, bound) ==
    IF AlgebraicExpression_OperandCount(e) = 1 /\ e.src = e.dest THEN TRUE
    ELSE IF bound.present /\ raxFind(bound.vars, e.src) THEN FALSE
    ELSE IF bound.present /\ raxFind(bound.vars, e.dest) THEN TRUE
    ELSE EntryScore(e.dest, qg, filtered) > EntryScore(e.src, qg, filtered)

\* Does _select_entry_point transpose e?
SelectTransposes(e, qg, filtered, bound) ==
    IF AlgebraicExpression_OperandCount(e) = 1 /\ e.src = e.dest THEN FALSE
    ELSE IF bound.present /\ raxFind(bound.vars, e.src) THEN FALSE
    ELSE IF bound.present /\ raxFind(bound.vars, e.dest) THEN TRUE
    ELSE EntryScore(e.dest, qg, filtered) > EntryScore(e.src, qg, filtered)

_select_entry_point(qg, e, filtered, bound) ==
    IF SelectTransposes(e, qg, filtered, bound)
    THEN AlgebraicExpression_Transpose(e)
    ELSE e

\* ------------------------------------------------------------------- inputs
\* Aliases are compared for equality only, so they are named in order of
\* first appearance in the array: src(0), dest(0), src(1), dest(1), ...
\* EndpointSeqs(m) is the set of such sequences of m endpoints.
RECURSIVE EndpointSeqs(_)
EndpointSeqs(m) ==
    IF m = 0 THEN { << >> }
    ELSE UNION { { Append(s, a) :
                     a \in { x \in Aliases :
                               x = 1 \/ \E k \in 1 .. m - 1 : s[k] >= x - 1 } } :
                 s \in EndpointSeqs(m - 1) }

\* The shapes an input expression can have with source s and destination d.
\* An input expression is a label scan (no edge alias, one operand, source =
\* destination) or a traversal carrying an edge alias; it has at most as many
\* transposes as operands and is not in transposed form.
InputExpression(s, d) ==
    { [ src |-> s, dest |-> d, edge |-> TRUE, operands |-> k,
        transposes |-> t, transposed |-> FALSE ] :
          k \in 1 .. MaxOperands, t \in 0 .. MaxOperands }
    \cup (IF s = d
          THEN { [ src |-> s, dest |-> d, edge |-> FALSE, operands |-> 1,
                   transposes |-> 0, transposed |-> FALSE ] }
          ELSE { })

\* the transpose operations present in the expressions of a heap
TransposesIn(o) ==
    SumOver([ i \in DOMAIN o |-> o[i].transposes ], 1, Len(o))

OperandsIn(o) ==
    SumOver([ i \in DOMAIN o |-> o[i].operands ], 1, Len(o))

\* the size of an array of expressions: its operands and its transposes
ObjectsSize(o) == OperandsIn(o) + TransposesIn(o)

\* the heaps of n input expressions whose endpoints are those of s
InputObjectsAt(s, n) ==
    { o \in [ 1 .. n -> UNION { InputExpression(s[2 * i - 1], s[2 * i]) :
                                  i \in 1 .. n } ] :
        /\ \A i \in 1 .. n : /\ o[i].src  = s[2 * i - 1]
                             /\ o[i].dest = s[2 * i]
                             /\ o[i].transposes <= o[i].operands
        /\ ObjectsSize(o) <= MaxSize }

InputObjects ==
    [ n \in 1 .. MaxExps |->
        UNION { InputObjectsAt(s, n) : s \in EndpointSeqs(2 * n) } ]

\* The marks on the aliases of a query: labeled nodes, filtered aliases and
\* bound variables; the bound-variable set may be absent (NULL).
Marks(m) ==
    Cardinality(m.labeled) + Cardinality(m.filtered) + Cardinality(m.bound)

Environments ==
    [ k \in 0 .. MaxSize |->
        { m \in [ labeled : SUBSET Aliases, filtered : SUBSET Aliases,
                  present : BOOLEAN, bound : SUBSET Aliases ] :
            /\ Marks(m) <= k
            /\ ~ m.present => m.bound = { } } ]

NoArrangement == << >>

Init ==
    /\ pc = "start"
    /\ exp_count \in 1 .. MaxExps
    /\ objs \in InputObjects[exp_count]
    /\ exps = [ i \in 1 .. exp_count |-> i ]
    /\ \E m \in Environments[MaxSize - ObjectsSize(objs)] :
         /\ labeled = m.labeled
         /\ filtered_entities = m.filtered
         /\ bound_vars = [ present |-> m.present, vars |-> m.bound ]
    /\ maintain_transpose \in BOOLEAN
    /\ arrangements = << >>
    /\ valid_arrangements = << >>
    /\ top_arrangement = NoArrangement
    /\ max_score = INT_MIN
    /\ call = [ run |-> 1, in_exps |-> exps, in_objs |-> objs ]

\* ------------------------------------------------------------ orderExpressions
\* "one expression that represents a scan rather than a traversal"
IsScan(e) == AlgebraicExpression_OperandCount(e) = 1 /\ e.src = e.dest

\* the early return
FastPath ==
    /\ pc = "start"
    /\ exp_count = 1 /\ IsScan(objs[exps[1]])
    /\ pc' = "done"
    /\ UNCHANGED << objs, exps, exp_count, env, arrangements,
                    valid_arrangements, top_arrangement, max_score, call >>

\* _permutations works on the caller's array and asserts the count
Permutations ==
    /\ pc = "start"
    /\ ~ (exp_count = 1 /\ IsScan(objs[exps[1]]))
    /\ LET st == _permute(<< exps, << >> >>, 1, exp_count) IN
         /\ exps' = st[1]
         /\ arrangements' = st[2]
         /\ pc' = IF Len(st[2]) = _factorial(exp_count)
                  THEN "permuted" ELSE "assert_failed"
    /\ UNCHANGED << objs, exp_count, env, valid_arrangements,
                    top_arrangement, max_score, call >>

\* if(arrangement_count == 1) goto select_entry_point
SingleArrangement ==
    /\ pc = "permuted"
    /\ Len(arrangements) = 1
    /\ pc' = "select"
    /\ UNCHANGED << objs, exps, exp_count, env, arrangements,
                    valid_arrangements, top_arrangement, max_score, call >>

\* "Remove invalid arrangements": the survivors keep their order
RemoveInvalid ==
    /\ pc = "permuted"
    /\ Len(arrangements) # 1
    /\ valid_arrangements' =
         SelectSeq(arrangements,
                   LAMBDA a : _valid_arrangement(objs, a, exp_count, labeled))
    /\ pc' = "filtered"
    /\ UNCHANGED << objs, exps, exp_count, env, arrangements,
                    top_arrangement, max_score, call >>

\* ASSERT(valid_arrangement_count > 0) fails
AssertNoValidArrangement ==
    /\ pc = "filtered"
    /\ Len(valid_arrangements) = 0
    /\ pc' = "assert_failed"
    /\ UNCHANGED << objs, exps, exp_count, env, arrangements,
                    valid_arrangements, top_arrangement, max_score, call >>

\* the scoring loop; the list of valid arrangements is freed after it
ScoreArrangements ==
    /\ pc = "filtered"
    /\ Len(valid_arrangements) > 0
    /\ LET st == ScoreLoop([ max_score |-> INT_MIN,
                             top_arrangement |-> valid_arrangements[1] ],
                           valid_arrangements, 1, objs, exp_count, labeled,
                           filtered_entities, bound_vars, maintain_transpose)
       IN  /\ max_score' = st.max_score
           /\ top_arrangement' = st.top_arrangement
    /\ valid_arrangements' = << >>
    /\ pc' = "scored"
    /\ UNCHANGED << objs, exps, exp_count, env, arrangements, call >>

\* "Update input"
UpdateInput ==
    /\ pc = "scored"
    /\ exps' = [ i \in 1 .. exp_count |-> top_arrangement[i] ]
    /\ pc' = "resolve"
    /\ UNCHANGED << objs, exp_count, env, arrangements, valid_arrangements,
                    top_arrangement, max_score, call >>

ResolveWinningSequence ==
    /\ pc = "resolve"
    /\ objs' = _resolve_winning_sequence(objs, exps, exp_count)
    /\ pc' = "select"
    /\ UNCHANGED << exps, exp_count, env, arrangements, valid_arrangements,
                    top_arrangement, max_score, call >>

\* select_entry_point: the opener, then the arrangements are freed
SelectEntryPoint ==
    /\ pc = "select"
    /\ objs' = [ objs EXCEPT ![exps[1]] =
                   _select_entry_point(labeled, @, filtered_entities, bound_vars) ]
    /\ arrangements' = << >>
    /\ pc' = "done"
    /\ UNCHANGED << exps, exp_count, env, valid_arrangements,
                    top_arrangement, max_score, call >>

\* The caller passes the array it got back to orderExpressions once more.
CallAgain ==
    /\ pc = "done"
    /\ call.run = 1
    /\ call' = [ run |-> 2, in_exps |-> exps, in_objs |-> objs ]
    /\ top_arrangement' = NoArrangement
    /\ max_score' = INT_MIN
    /\ pc' = "start"
    /\ UNCHANGED << objs, exps, exp_count, env, arrangements,
                    valid_arrangements >>

\* one call of orderExpressions
Next ==
    \/ FastPath
    \/ Permutations
    \/ SingleArrangement
    \/ RemoveInvalid
    \/ AssertNoValidArrangement
    \/ ScoreArrangements
    \/ UpdateInput
    \/ ResolveWinningSequence
    \/ SelectEntryPoint

Spec == Init /\ [][Next]_vars

\* a call, then a second one on the array the first one left
NextTwice ==
    \/ Next
    \/ CallAgain

SpecTwice == Init /\ [][NextTwice]_vars

\* ===================================================================== claims
\* the expression at position i (0-based i - 1) of the caller's array
At(i) == objs[exps[i]]

\* the expression the caller passed at the pointer now at position i
InputAt(i) == call.in_objs[exps[i]]

\* C1: after orderExpressions returns, the source of every expression after
\* the opener is the source or the destination of an earlier expression.
C1_SourcesChained ==
    pc = "done" =>
        \A i \in 2 .. exp_count :
            \E j \in 1 .. i - 1 : At(i).src \in { At(j).src, At(j).dest }

\* three expressions, the opener transposed by the entry-point selector and a
\* later one transposed by the sequence resolver
C1_Witness ==
    /\ pc = "done"
    /\ exp_count = 3
    /\ At(1).transposed
    /\ \E i \in 2 .. 3 : At(i).transposed

\* C2: the array returned has the length of the input and holds the same
\* expression pointers, each as often as the input does.
C2_SameExpressions ==
    pc = "done" =>
        /\ Len(exps) = Len(call.in_exps)
        /\ \A id \in DOMAIN objs :
               Cardinality({ i \in DOMAIN exps : exps[i] = id })
                 = Cardinality({ i \in DOMAIN call.in_exps : call.in_exps[i] = id })

\* three expressions returned in another order, one of them transposed
C2_Witness ==
    /\ pc = "done"
    /\ exp_count = 3
    /\ exps # call.in_exps
    /\ \E i \in 1 .. 3 : At(i).transposed

\* the input [R](a->b), [L0](a->a), [L1](b->b) with a labeled
LabelFirstScenario ==
    /\ exp_count = 3
    /\ call.in_exps = << 1, 2, 3 >>
    /\ LET R == call.in_objs[1]  L0 == call.in_objs[2]  L1 == call.in_objs[3] IN
         /\ R.edge /\ R.operands = 1 /\ R.src # R.dest
         /\ ~ L0.edge /\ L0.src = R.src /\ L0.dest = R.src
         /\ ~ L1.edge /\ L1.src = R.dest /\ L1.dest = R.dest
         /\ R.src \in labeled

\* C3: with two expressions or more, the opener returned is never a
\* one-operand traversal with a labeled source or destination; for the input
\* [R](a->b), [L0](a->a), [L1](b->b) with a labeled, the opener is a label scan.
C3_OpenerRule ==
    (pc = "done" /\ exp_count >= 2) =>
        /\ ~ ( /\ At(1).edge
               /\ At(1).operands = 1
               /\ (At(1).src \in labeled \/ At(1).dest \in labeled) )
        /\ LabelFirstScenario => ~ At(1).edge

C3_Witness == pc = "done" /\ LabelFirstScenario

\* C4: when a bound-variable set is supplied and an endpoint of the opener is
\* bound before entry-point selection, the opener's source is bound after
\* it: a bound source stays, a destination that alone is bound becomes the
\* source by a transpose.
C4_BoundEntryPoint ==
    [][ (pc = "select" /\ bound_vars.present) =>
          /\ At(1).src \in bound_vars.vars => objs'[exps[1]] = At(1)
          /\ (At(1).dest \in bound_vars.vars /\ At(1).src \notin bound_vars.vars) =>
                /\ objs'[exps[1]].transposed # At(1).transposed
                /\ objs'[exps[1]].src = At(1).dest
          /\ (At(1).src \in bound_vars.vars \/ At(1).dest \in bound_vars.vars) =>
                objs'[exps[1]].src \in bound_vars.vars ]_vars

\* the single traversal (a)->(b) with only b bound, returned with source b
C4_Witness ==
    /\ pc = "done"
    /\ exp_count = 1
    /\ bound_vars.present
    /\ At(1).transposed
    /\ At(1).src \in bound_vars.vars
    /\ At(1).dest \notin bound_vars.vars
    /\ labeled = { } /\ filtered_entities = { }

\* what C5 says of a second run: the same pointers in the same order, every
\* expression after the opener as the first run left it, the opener as it was
\* left or transposed once more
SecondRunSame ==
    /\ exps = call.in_exps
    /\ \A i \in 2 .. exp_count : At(i) = InputAt(i)
    /\ At(1) \in { InputAt(1), AlgebraicExpression_Transpose(InputAt(1)) }

\* C5 as stated: a second run on the array a first run returned yields the
\* same array up to one more transpose of the opener.
C5_Idempotent ==
    (pc = "done" /\ call.run = 2) => SecondRunSame

\* C5 as amended: a second run yields the same array up to one more transpose
\* of the opener when transposes are maintained and no node is labeled, or
\* when the array holds one expression.
C5_IdempotentWithoutLabelsAndPenalty ==
    ( /\ pc = "done"
      /\ call.run = 2
      /\ \/ maintain_transpose /\ labeled = { }
         \/ exp_count = 1 ) => SecondRunSame

\* a second run has returned, transposes maintained and no labels, on an array
\* the first run had reordered and in which it had transposed an expression
C5_Witness ==
    /\ pc = "done"
    /\ call.run = 2
    /\ maintain_transpose /\ labeled = { }
    /\ exp_count = 3
    /\ call.in_exps # << 1, 2, 3 >>
    /\ \E i \in 1 .. 3 : call.in_objs[i].transposed

\* the expressions linked to those of S through shared endpoints
RECURSIVE LinkedTo(_, _)
LinkedTo(o, S) ==
    LET more == S \cup { j \in DOMAIN o :
                           \E i \in S : \/ o[i].src  \in { o[j].src, o[j].dest }
                                        \/ o[i].dest \in { o[j].src, o[j].dest } }
    IN  IF more = S THEN S ELSE LinkedTo(o, more)

\* every expression is linked to every other
ConnectedPattern(o) == LinkedTo(o, { 1 }) = DOMAIN o

\* a one-operand traversal with a labeled endpoint
BareLabeledTraversal(e) ==
    e.edge /\ e.operands = 1 /\ (e.src \in labeled \/ e.dest \in labeled)

ScoreOf(k) ==
    _score_arrangement(objs, arrangements[k], exp_count, labeled,
                       filtered_entities, bound_vars, maintain_transpose)

ValidAt(k) == _valid_arrangement(objs, arrangements[k], exp_count, labeled)

\* the arrangements that are valid and of the highest score among the valid
BestValid ==
    { k \in DOMAIN arrangements :
        /\ ValidAt(k)
        /\ \A m \in DOMAIN arrangements : ValidAt(m) => ScoreOf(m) <= ScoreOf(k) }

\* C7: the order written back is that of the valid ordering of the highest
\* score, scored on the expressions as passed in, and of the earliest
\* generated one when several reach that score.
C7_FirstBestWins ==
    pc = "resolve" =>
        /\ objs = call.in_objs
        /\ \E k \in BestValid :
              /\ exps = arrangements[k]
              /\ \A m \in BestValid : k <= m

\* three expressions, several valid orderings of the highest score, and the
\* order written back is not the order passed in
C7_Witness ==
    /\ pc = "resolve"
    /\ exp_count = 3
    /\ Cardinality(BestValid) >= 2
    /\ exps # call.in_exps

\* the reward of the arrangement generated k-th
RewardOf(k) ==
    _reward_arrangement(objs, arrangements[k], exp_count, labeled,
                        filtered_entities, bound_vars)

\* the number of expressions the sequence resolver transposes in the
\* arrangement generated k-th
ResolverTransposes(k) ==
    LET after == _resolve_winning_sequence(objs, arrangements[k], exp_count)
    IN  Cardinality({ i \in DOMAIN objs : after[i].transposed # objs[i].transposed })

\* two valid orderings of equal reward, the first needing fewer transposes
FewerTransposes(a, b) ==
    /\ ValidAt(a) /\ ValidAt(b)
    /\ RewardOf(a) = RewardOf(b)
    /\ ResolverTransposes(a) < ResolverTransposes(b)

\* C8 as stated: without maintained transposes, of two valid orderings of
\* equal reward the one the resolver transposes fewer expressions of has the
\* strictly higher score.
C8_FewerTransposesScoreHigher ==
    (pc = "filtered" /\ ~ maintain_transpose) =>
        \A a, b \in DOMAIN arrangements :
            FewerTransposes(a, b) => ScoreOf(a) > ScoreOf(b)

\* no expression carries a transpose and all have the same operand count
PlainExpressions ==
    \A i, j \in DOMAIN objs :
        objs[i].transposes = 0 /\ objs[i].operands = objs[j].operands

\* C8 as amended: the same, for expressions that carry no transpose on input
\* and all have the same operand count.
C8_FewerTransposesScoreHigherPlain ==
    (pc = "filtered" /\ ~ maintain_transpose /\ PlainExpressions) =>
        \A a, b \in DOMAIN arrangements :
            FewerTransposes(a, b) => ScoreOf(a) > ScoreOf(b)

\* three plain expressions with two valid orderings of equal reward that
\* need different numbers of transposes
C8_Witness ==
    /\ pc = "filtered"
    /\ ~ maintain_transpose
    /\ exp_count = 3
    /\ PlainExpressions
    /\ \E a, b \in DOMAIN arrangements : FewerTransposes(a, b)

\* the score of an endpoint in entry-point selection: F (4) if filtered plus
\* L (2) if labeled
EndpointScore(alias) ==
    (IF alias \in filtered_entities THEN 4 ELSE 0)
      + (IF alias \in labeled THEN 2 ELSE 0)

\* the opener is no single-operand self-loop and none of its endpoints is bound
UnboundOpener ==
    /\ ~ (At(1).operands = 1 /\ At(1).src = At(1).dest)
    /\ \/ ~ bound_vars.present
       \/ At(1).src \notin bound_vars.vars /\ At(1).dest \notin bound_vars.vars

\* C9: entry-point selection transposes such an opener exactly when its
\* destination scores strictly higher than its source, and leaves it as it
\* is otherwise; a filtered destination replaces a source that is only labeled.
C9_EntryPointByScore ==
    [][ (pc = "select" /\ UnboundOpener) =>
          /\ EndpointScore(At(1).dest) > EndpointScore(At(1).src)
                => objs'[exps[1]] = AlgebraicExpression_Transpose(At(1))
          /\ EndpointScore(At(1).dest) <= EndpointScore(At(1).src)
                => objs'[exps[1]] = At(1)
          /\ ( /\ At(1).dest \in filtered_entities
               /\ At(1).src \in labeled
               /\ At(1).src \notin filtered_entities )
                => /\ objs'[exps[1]].src = At(1).dest
                   /\ objs'[exps[1]].transposed # At(1).transposed ]_vars

\* the single traversal (a:L)->(b), b filtered, nothing bound, returned
\* transposed with source b
C9_Witness ==
    /\ pc = "done"
    /\ exp_count = 1
    /\ ~ bound_vars.present
    /\ At(1).transposed
    /\ At(1).src # At(1).dest
    /\ filtered_entities = { At(1).src }
    /\ labeled = { At(1).dest }

\* the winner of the scoring loop for the expressions o
WinnerOf(o, mt) ==
    LET valid == SelectSeq(arrangements,
                           LAMBDA a : _valid_arrangement(o, a, exp_count, labeled))
    IN  IF Len(valid) = 0 THEN NoArrangement
        ELSE ScoreLoop([ max_score |-> INT_MIN, top_arrangement |-> valid[1] ],
                       valid, 1, o, exp_count, labeled, filtered_entities,
                       bound_vars, mt).top_arrangement

\* the operand counts and transpose counts an expression can have
Counts ==
    { kt \in (1 .. MaxOperands) \X (0 .. MaxOperands) : kt[2] <= kt[1] }

\* the inputs that differ from objs in transpose counts only
TransposeVariants ==
    { [ i \in DOMAIN objs |-> [ objs[i] EXCEPT !.transposes = kt[i][2] ] ] :
        kt \in { c \in [ DOMAIN objs -> Counts ] :
                   \A i \in DOMAIN objs : c[i][1] = objs[i].operands } }

\* the inputs that differ from objs in transpose counts and operand counts only
CountVariants ==
    { [ i \in DOMAIN objs |-> [ objs[i] EXCEPT !.operands = kt[i][1],
                                               !.transposes = kt[i][2] ] ] :
        kt \in [ DOMAIN objs -> Counts ] }

NoPenalty ==
    \A k \in DOMAIN arrangements :
        _penalty_arrangement(objs, arrangements[k], exp_count,
                             maintain_transpose) = 0

\* C10 as stated: with maintained transposes every penalty is 0 and a run on
\* an input that differs in transpose counts and operand counts only, if it
\* selects an ordering at all, selects the same ordering.
C10_SameOrderingAnyCounts ==
    (pc = "scored" /\ maintain_transpose) =>
        /\ NoPenalty
        /\ \A o \in CountVariants :
              WinnerOf(o, TRUE) \in { NoArrangement, top_arrangement }

\* C10 as amended: with maintained transposes every penalty is 0 and a run
\* on an input that differs in transpose counts only selects the same
\* ordering.
C10_SameOrderingAnyTransposes ==
    (pc = "scored" /\ maintain_transpose) =>
        /\ NoPenalty
        /\ \A o \in TransposeVariants : WinnerOf(o, TRUE) = top_arrangement

\* three expressions scored with maintained transposes, for which some other
\* transpose counts would have changed the winner had penalties applied
C10_Witness ==
    /\ pc = "scored"
    /\ maintain_transpose
    /\ exp_count = 3
    /\ \E o \in TransposeVariants : WinnerOf(o, FALSE) # top_arrangement

\* the expression at position i of the arrangement generated k-th
ArrAt(k, i) == objs[arrangements[k][i]]

\* the penalty of the arrangement generated k-th
PenaltyOf(k) ==
    _penalty_arrangement(objs, arrangements[k], exp_count, maintain_transpose)

IsBound(alias) == bound_vars.present /\ alias \in bound_vars.vars

\* the endpoints of x and y have the same bound and filtered status
SameBoundAndFiltered(x, y) ==
    /\ IsBound(x.src)  = IsBound(y.src)
    /\ IsBound(x.dest) = IsBound(y.dest)
    /\ (x.src  \in filtered_entities) = (y.src  \in filtered_entities)
    /\ (x.dest \in filtered_entities) = (y.dest \in filtered_entities)

\* orderings a and b are each other with the first two positions swapped
SwappedOpeners(a, b) ==
    /\ arrangements[a][1] = arrangements[b][2]
    /\ arrangements[a][2] = arrangements[b][1]
    /\ \A i \in 3 .. exp_count : arrangements[a][i] = arrangements[b][i]

\* a opens with an expression of labeled source, b with one of unlabeled
\* source, and all else is equal
LabelAtSourceFirst(a, b) ==
    /\ SwappedOpeners(a, b)
    /\ ArrAt(a, 1).src \in labeled
    /\ ArrAt(b, 1).src \notin labeled
    /\ SameBoundAndFiltered(ArrAt(a, 1), ArrAt(b, 1))
    /\ PenaltyOf(a) = PenaltyOf(b)

\* C11: of two orderings of two expressions or more that differ by a swap of
\* the first two positions only, the one that opens with an expression of
\* labeled source scores at least L (2) more than the one that opens with an
\* expression of unlabeled source, bound and filtered status and penalties
\* being equal.
C11_LabelAtSourceScoresHigher ==
    pc = "filtered" =>
        \A a, b \in DOMAIN arrangements :
            LabelAtSourceFirst(a, b) => ScoreOf(a) - ScoreOf(b) >= 2

\* two such orderings that both passed the filter and are charged the same
\* penalty, which is not 0
C11_Witness ==
    /\ pc = "filtered"
    /\ ~ maintain_transpose
    /\ \E a, b \in DOMAIN arrangements :
          /\ LabelAtSourceFirst(a, b)
          /\ ValidAt(a) /\ ValidAt(b)
          /\ PenaltyOf(a) > 0

\* a single-operand expression whose source is its destination
SelfLoop(e) == e.operands = 1 /\ e.src = e.dest

\* C12: a call on an array of one single-operand self-loop expression returns
\* at once with the array and the expression as they were, whatever the
\* labels, filters and bound variables; and entry-point selection leaves a
\* single-operand self-loop opener, the array and every other expression as
\* they were.
C12_SelfLoopUntouched ==
    [][ /\ (pc = "start" /\ exp_count = 1 /\ SelfLoop(At(1))) =>
              (pc' = "done" /\ exps' = exps /\ objs' = objs)
        /\ (pc = "select" /\ SelfLoop(At(1))) =>
              (pc' = "done" /\ exps' = exps /\ objs' = objs) ]_vars

\* the call has returned the single expression (a)-[:R]->(a), a labeled,
\* filtered and bound
C12_Witness ==
    /\ pc = "done"
    /\ exp_count = 1
    /\ SelfLoop(At(1)) /\ At(1).edge
    /\ At(1).src \in labeled
    /\ At(1).src \in filtered_entities
    /\ IsBound(At(1).src)

\* some expression passed in has a bound source or destination
SomeBound(o) == \E i \in DOMAIN o : IsBound(o[i].src) \/ IsBound(o[i].dest)

\* C13: when a bound-variable set is supplied and some expression passed in
\* has a bound source or destination, the expression orderExpressions
\* returns at position 0 has a bound source or destination.
C13_StartsAtBoundVariable ==
    (pc = "done" /\ bound_vars.present /\ SomeBound(call.in_objs)) =>
        (IsBound(At(1).src) \/ IsBound(At(1).dest))

\* every ordering of the array es
Orderings(es) ==
    { [ i \in DOMAIN es |-> es[p[i]] ] :
        p \in { q \in [ DOMAIN es -> DOMAIN es ] :
                  \A i, j \in DOMAIN es : i # j => q[i] # q[j] } }

\* C14: when _permutations has run on an array of n distinct expression
\* pointers, its assertion on the count holds and the list it returns has
\* n! entries, each an ordering of the array passed in, no two of them
\* equal, and every ordering of that array among them.
C14_AllOrderingsOnce ==
    pc \in { "permuted", "assert_failed" } =>
        /\ Len(arrangements) = Cardinality(Orderings(call.in_exps))
        /\ Len(arrangements) = _factorial(exp_count)
        /\ \A k \in DOMAIN arrangements :
               arrangements[k] \in Orderings(call.in_exps)
        /\ \A j, k \in DOMAIN arrangements :
               j # k => arrangements[j] # arrangements[k]
        /\ \A a \in Orderings(call.in_exps) :
               \E k \in DOMAIN arrangements : arrangements[k] = a

\* the six orderings of three expressions, in the order the recursion
\* generates them
C14_Witness ==
    /\ pc = "permuted"
    /\ exp_count = 3
    /\ arrangements = << << 1, 2, 3 >>, << 1, 3, 2 >>, << 2, 1, 3 >>,
                         << 2, 3, 1 >>, << 3, 2, 1 >>, << 3, 1, 2 >> >>

\* the penalty charged to the winner: its reward less the score kept for it
PenaltyCharged ==
    _reward_arrangement(call.in_objs, top_arrangement, exp_count, labeled,
                        filtered_entities, bound_vars) - max_score

\* the expression at position i was passed in with its source resolved by an
\* earlier expression of the winning ordering
ResolvedOnInput(i) == SrcResolved(call.in_objs, exps, i)

\* C15: without maintained transposes and with two expressions or more, the
\* penalty charged to the winning ordering is T (1) times the number of
\* transpose operations in the array once the sequence resolver has run: an
\* expression whose source was resolved keeps its t transposes, any other
\* has been transposed and carries k - t.  Entry-point selection changes
\* the opener only, so the charge stays the transposes of the opener as it
\* was passed in plus those of the expressions after it.
C15_PenaltyCountsResolvedTransposes ==
    (~ maintain_transpose /\ exp_count >= 2) =>
        /\ pc = "select" =>
              /\ PenaltyCharged = 1 * TransposesIn(objs)
              /\ At(1) = InputAt(1)
              /\ \A i \in 2 .. exp_count :
                    /\ ResolvedOnInput(i) => At(i) = InputAt(i)
                    /\ ~ ResolvedOnInput(i) =>
                          /\ At(i).transposed
                          /\ At(i).transposes
                               = InputAt(i).operands - InputAt(i).transposes
        /\ pc = "done" =>
              PenaltyCharged
                = 1 * ( InputAt(1).transposes
                        + SumOver([ i \in 1 .. exp_count |->
                                      IF i = 1 THEN 0 ELSE At(i).transposes ],
                                  1, exp_count) )

\* three expressions returned without maintained transposes: one transposed
\* by the resolver, the opener transposed by entry-point selection, and the
\* array holding another number of transposes than the penalty charged
C15_Witness ==
    /\ pc = "done"
    /\ ~ maintain_transpose
    /\ exp_count = 3
    /\ \E i \in 2 .. 3 : At(i).transposed /\ At(i).transposes > 0
    /\ At(1).transposed
    /\ PenaltyCharged # 1 * TransposesIn(objs)

====
